---- MODULE Spec2Model ----
(***************************************************************************)
(* Fusion - Validate - Transform pipeline of philidorvitrine:              *)
(*   core/xml_processor.py      XMLProcessor (cleaning, fusion)            *)
(*   ui/transformation.py       AutoTransformationWidget (gate, handlers)  *)
(*   core/transformer_engine.py XSLTTransformationEngine, worker thread    *)
(* XML documents are modelled by their element structure: a document is a  *)
(* root tag and the list of the root's children that the pipeline reads.   *)
(***************************************************************************)
EXTENDS Integers, Sequences, FiniteSets, TLC

(***************************************************************************)
(* Bounds of the model                                                     *)
(***************************************************************************)
MaxRuns == 2
MaxClock == 1
MaxItems == 2

(***************************************************************************)
(* Texts.  A text value is its stripped core and the amount of surrounding *)
(* whitespace, so that str.strip() and truthiness are computed, not        *)
(* assumed.                                                                *)
(***************************************************************************)
Ids == {"alpha", "beta"}

Paddings == {0, 1}

Txt(w, c) == [ws |-> w, core |-> c]

RawTexts == [ws : Paddings, core : Ids \cup {""}]

\* Python truthiness of a str: non-empty
Truthy(t) == t.ws > 0 \/ t.core # ""

\* str.strip()
Strip(t) == t.core

(***************************************************************************)
(* Documents                                                               *)
(***************************************************************************)
\* an element of the primary export: its tag ("item", "Anonyme", or
\* "AnonymeAttr" for an <Anonyme> that carries attributes) and the text of
\* its <projet> child
Item(tag, projet) == [tag |-> tag, text |-> projet]

\* a file on disk: exists, contains control characters, is well formed apart
\* from them, root tag and the children of the root
XmlFile(ex, ctrl, wf, root, kids) ==
    [exists |-> ex, ctrl |-> ctrl, wellFormed |-> wf, root |-> root, kids |-> kids]

MissingFile == XmlFile(FALSE, FALSE, FALSE, "", <<>>)

\* <Anonyme x="1"> keeps its opening tag but loses its closing tag
CleanItemBroken(it) == it.tag = "AnonymeAttr"

CleanItem(it) == IF it.tag = "Anonyme" THEN Item("item", it.text) ELSE it

\* XMLProcessor._clean_xml_content: '<Anonyme>' -> '<item key="Anonyme">',
\* '</Anonyme>' -> '</item>'
CleanXmlContentProcessor(f) ==
    [f EXCEPT !.kids = [i \in 1..Len(f.kids) |-> CleanItem(f.kids[i])],
              !.wellFormed = f.wellFormed /\ \A i \in 1..Len(f.kids) : ~CleanItemBroken(f.kids[i])]

\* utils.clean_xml_content: removes the control characters XML forbids
clean_xml_content(f) == [f EXCEPT !.ctrl = FALSE]

\* what ET.fromstring / ET.parse accept
Parses(f) == f.exists /\ f.wellFormed /\ ~f.ctrl

(***************************************************************************)
(* Fusion                                                                  *)
(***************************************************************************)
\* data_files of _merge_xml_files, in enumeration (insertion) order
data_files == << "presentation_data", "projects_data", "legal_mentions_data", "about_data" >>

Wrapper(tag, err, root, kids) == [tag |-> tag, error |-> err, root |-> root, kids |-> kids]

SlotWrappersWithoutError(section_name, f) ==
    IF f.exists /\ Parses(clean_xml_content(f))
    THEN << Wrapper(section_name, FALSE, f.root, f.kids) >>
    ELSE <<>>

\* one pass of the loop over data_files: no wrapper, a content wrapper or an
\* error wrapper
SlotWrappers(section_name, f) ==
    IF ~f.exists THEN <<>>
    ELSE IF Parses(clean_xml_content(f))
         THEN << Wrapper(section_name, FALSE, f.root, f.kids) >>
         ELSE << Wrapper(section_name, TRUE, "", <<>>) >>

RECURSIVE MergeSlotsStopAtError(_, _)
MergeSlotsStopAtError(data, k) ==
    IF k > Len(data_files) THEN <<>>
    ELSE LET w == SlotWrappers(data_files[k], data[data_files[k]])
         IN  IF w # <<>> /\ w[1].error THEN w
             ELSE w \o MergeSlotsStopAtError(data, k + 1)

\* "for section_name, filename in data_files.items():" from the k-th entry on
RECURSIVE MergeSlots(_, _)
MergeSlots(data, k) ==
    IF k > Len(data_files) THEN <<>>
    ELSE SlotWrappers(data_files[k], data[data_files[k]]) \o MergeSlots(data, k + 1)

\* XMLProcessor._merge_xml_files on the cleaned primary content; the result
\* is the list of the children of <merged_data>
MergeXmlFiles(main, data) ==
    << Wrapper("philidor4_data", FALSE, main.root, main.kids) >> \o MergeSlots(data, 1)

\* ET.fromstring of the primary raises: no fused document
MergeRaises(main) == ~Parses(clean_xml_content(main))

(***************************************************************************)
(* Reference gate                                                          *)
(***************************************************************************)
\* the set of the values of a list
Range(s) == {s[i] : i \in 1..Len(s)}

\* list(a_set): every element once, in the iteration order of the set, which
\* Python leaves unspecified for str elements (hash randomisation)
ListsOf(S) == {s \in [1..Cardinality(S) -> S] : Range(s) = S}

\* the stripped, non-empty texts read from the children named child_tag of
\* the wrappers named section whose content has the root tag root
StrippedTexts(fused, section, root, child_tag) ==
    UNION {{Strip(fused[w].kids[i].text) :
               i \in {j \in 1..Len(fused[w].kids) :
                        /\ fused[w].kids[j].tag = child_tag
                        /\ Truthy(fused[w].kids[j].text)}} :
           w \in {v \in 1..Len(fused) : fused[v].tag = section /\ fused[v].root = root}}

\* root.findall(".//philidor4_data/response/item") then item.find("projet")
RequiredProjects(fused) == StrippedTexts(fused, "philidor4_data", "response", "item")

\* root.findall(".//projects_data/projects/project") then project.get("id")
AvailableProjects(fused) == StrippedTexts(fused, "projects_data", "projects", "project")

MissingProjectsSwapped(required, available) == available \ required

\* missing_projects = required_projects - available_projects
MissingProjects(required, available) == required \ available

\* the values verify_projects can return for a fused document
VerifyProjects(fused) ==
    ListsOf(MissingProjects(RequiredProjects(fused), AvailableProjects(fused)))

GateNeverBlocks(missing_projects) == FALSE

\* on_merge_completed: "if missing_projects:" (a non-empty list)
GateBlocks(missing_projects) == Len(missing_projects) > 0

(***************************************************************************)
(* State                                                                   *)
(***************************************************************************)
VARIABLES
    clock,                          \* datetime.now(), in seconds
    dataFiles,                      \* resources/data/<slot file>
    xslt_exists,                    \* resources/xsl/transform.xsl exists
    tempFiles,                      \* resources/temp/merged_data_<timestamp>.xml
    workspaces,                     \* engine.temp_dir/<transform_id>
    transformations,                \* XSLTTransformationEngine.transformations
    selected_file_path,             \* widget: chosen primary document
    start_process_button,           \* widget: button enabled
    download_button,                \* widget: button enabled
    current_transformation_result,  \* widget
    merged_file_path,               \* widget
    xml_thread,                     \* widget: run of the current QThread
    transformation_worker,          \* widget: run of the current worker
    guiStack,                       \* open modal dialogs, innermost last
    aborted,                        \* the process was aborted by Qt
    closed,                         \* the widget received its close event
    runs,                           \* the runs started so far
    program,                        \* which program this process is: main.py or app.py
    requests,                       \* app.py: the /transform requests handled
    TRANSFORMATIONS,                \* app.py: app.config['TRANSFORMATIONS']
    fnMain, fnData, fnState, fnFused, fnMissing,  \* fusion and gate applied to inputs
    pkProgram,                      \* packaging applied to inputs: engine or app.py
    pkEngineFiles,                  \* the workspace when the engine returned
    pkFiles,                        \* the workspace: path -> content
    pkStatics,                      \* the files under STATICS_PATH
    pkState,                        \* the position in transform
    pkCount,                        \* output_files_count
    pkZip,                          \* the entries of the archive, in order
    clCleaner,                      \* cleaning applied to inputs: which function
    clInput, clOnce, clTwice,       \* the text, cleaned once, cleaned twice
    clState,
    project_manager,                \* main.py: the ProjectManager and its Project objects
    pmCall,                         \* the last call made on it and whether it raised
    rtProject, rtXml, rtBack,       \* a Project, its XML string, the Project read back
    rtState

pipeVars == << clock, dataFiles, xslt_exists, tempFiles, workspaces, transformations,
               selected_file_path, start_process_button, download_button,
               current_transformation_result, merged_file_path, xml_thread,
               transformation_worker, guiStack, aborted, closed, runs, program, requests,
               TRANSFORMATIONS >>

fnVars == << fnMain, fnData, fnState, fnFused, fnMissing >>

webVars == << program, requests, TRANSFORMATIONS >>

pkVars == << pkProgram, pkEngineFiles, pkFiles, pkStatics, pkState, pkCount, pkZip >>

clVars == << clCleaner, clInput, clOnce, clTwice, clState >>

pmVars == << project_manager, pmCall >>

rtVars == << rtProject, rtXml, rtBack, rtState >>

vars == << pipeVars, fnVars, pkVars, clVars, pmVars, rtVars >>

(***************************************************************************)
(* Inputs                                                                  *)
(***************************************************************************)
ValidFile(root, kids) == XmlFile(TRUE, FALSE, TRUE, root, kids)

\* a slot file that is present: valid, valid once the control characters
\* are removed, or malformed
PresentFiles(root, kids) ==
    { ValidFile(root, kids), XmlFile(TRUE, TRUE, TRUE, root, kids),
      XmlFile(TRUE, FALSE, FALSE, "", <<>>) }

Project(id) == Item("project", id)

ProjectsFile(ids) == ValidFile("projects", [i \in 1..Len(ids) |-> Project(ids[i])])

\* lists of at most n elements of S
SeqsUpTo(S, n) == UNION {[1..k -> S] : k \in 0..n}

NoSelection == XmlFile(FALSE, FALSE, FALSE, "none", <<>>)

\* the primary documents the user picks in the pipeline
PipelineDocs ==
    { XmlFile(TRUE, FALSE, FALSE, "", <<>>),
      ValidFile("response", << Item("item", Txt(0, "alpha")) >>),
      ValidFile("response", << Item("Anonyme", Txt(1, "beta")), Item("item", Txt(0, "alpha")) >>),
      ValidFile("response", << Item("AnonymeAttr", Txt(0, "alpha")) >>) }

DataWith(projects) ==
    [s \in Range(data_files) |->
        IF s = "projects_data" THEN projects ELSE ValidFile(s, <<>>)]

PipelineData ==
    { DataWith(MissingFile),
      DataWith(ProjectsFile(<< Txt(0, "alpha") >>)),
      DataWith(ProjectsFile(<< Txt(0, "alpha"), Txt(1, "beta") >>)) }

(***************************************************************************)
(* Runs, results, files                                                    *)
(***************************************************************************)
NoPath == 0 - 1

NoRun == 0

Paths == 0..MaxClock

NoFile == [exists |-> FALSE, doc |-> <<>>]

\* uuid.uuid4() as the pair (first 8 hex digits, rest); the values drawn
\* here agree on their first 8 digits
Uuids == {1} \X (1..MaxRuns)

NoUuid == << 0, 0 >>

\* transform_id[:8]
Prefix(transform_id) == << transform_id[1], 0 >>

\* the names a directory under engine.temp_dir can have
DirNames == Uuids \cup { Prefix(u) : u \in Uuids }

WorkspaceDirByPrefix(transform_id) == Prefix(transform_id)

\* transform_dir = os.path.join(self.temp_dir, transform_id)
WorkspaceDir(transform_id) == transform_id

Result(ok, id, zip, n, err) ==
    [success |-> ok, transform_id |-> id, zip_path |-> zip, file_count |-> n, error |-> err]

NoResult == Result(FALSE, NoUuid, NoUuid, 0, "none")

\* a StatisticsReport: the 'error' key, 'root_tag' and 'total_elements'
Statistics(err, root_tag, total_elements) ==
    [error |-> err, root_tag |-> root_tag, total_elements |-> total_elements]

\* no report computed yet
NoStats == Statistics(FALSE, "none", 0)

NewRun(input) ==
    [pc |-> "thread_started", input |-> input, path |-> NoPath, verified |-> FALSE,
     missing |-> <<>>, started |-> FALSE, xml_path |-> NoPath, tid |-> NoUuid,
     transform_dir |-> NoUuid, result |-> NoResult, failure |-> "none",
     stages |-> << >>, signals |-> << >>, handled |-> << >>,
     fused_store |-> {}, validating_store |-> {}, available |-> {},
     ops |-> << >>, stats |-> NoStats, rank |-> 0]

\* a directory engine.temp_dir/<name>: exists, files under output/, the archive
Workspace(dir, out, zip) == [exists |-> dir, output |-> out, zip |-> zip]

NoWorkspace == Workspace(FALSE, {}, "none")

\* the files a stylesheet writes with xsl:result-document
EngineOutputs == { {"index.html", "pages/p1.html"} }

\* what a failing engine call leaves behind in output/
PartialOutputs == { {}, {"index.html"} }

Enter(r, stage) == [r EXCEPT !.stages = Append(r.stages, stage)]

\* the terminal signals emitted for a run, in order
Emit(r, sigs) == [r EXCEPT !.signals = r.signals \o sigs]

\* the widget's terminal handlers that ran for a run, in order, and the
\* rank of the run among the runs that a terminal handler has ended
Handle(r, handler) ==
    [r EXCEPT !.handled = Append(r.handled, handler),
              !.rank = IF r.handled = << >>
                       THEN Cardinality({ j \in 1..Len(runs) : runs[j].handled # << >> }) + 1
                       ELSE @]

Top(stack) == stack[Len(stack)]

Pop(stack) == SubSeq(stack, 1, Len(stack) - 1)

Dialog(kind, run, after) == [kind |-> kind, run |-> run, after |-> after]

\* a QThread object that loses its last reference while its thread runs is
\* destroyed while running: Qt aborts the process, or the thread goes on
XmlThreadRunning ==
    /\ xml_thread # NoRun
    /\ runs[xml_thread].pc \in {"thread_started", "merge_emitted", "error_emitted"}

WorkerRunning ==
    /\ transformation_worker # NoRun
    /\ runs[transformation_worker].pc \in {"worker_started", "packaging"}

(***************************************************************************)
(* ProjectManager: the Project objects and the two dictionaries            *)
(***************************************************************************)
MaxObjects == 2

\* the Project objects that are alive at once, and no object
Oids == 1..MaxObjects

NoOid == 0

\* the values of Project.uuid: uuid.uuid4() and the uuid attribute of a
\* loaded <project>
ProjectUuids == 1..MaxObjects

ProjectNames == {"A", "B"}

Descriptions == {"", "d"}

\* an argument left at its default None
None == "None"

ProjectObject(uuid, id, name, description_html) ==
    [uuid |-> uuid, id |-> id, name |-> name, description_html |-> description_html]

NoObject == ProjectObject(0, "", "", "")

\* the objects, self._projects (uuid -> object) and self._projects_by_id
\* (id -> object); a dictionary holds references, so one object can be
\* reached through both
Manager(heap, by_uuid, by_id) ==
    [heap |-> heap, projects |-> by_uuid, projects_by_id |-> by_id]

EmptyManager ==
    Manager([o \in Oids |-> NoObject], [u \in ProjectUuids |-> NoOid],
            [id \in Ids |-> NoOid])

\* a call on the manager: the method and whether it raised
Call(op, raised) == [op |-> op, raised |-> raised]

(***************************************************************************)
(* Initial state: the widget after __init__ and setup_ui                   *)
(***************************************************************************)
FnIdle ==
    /\ fnMain = NoSelection
    /\ fnData = DataWith(MissingFile)
    /\ fnState = "unused"
    /\ fnFused = <<>>
    /\ fnMissing = <<>>

PipeInit ==
    /\ clock = 0
    /\ dataFiles \in PipelineData
    /\ xslt_exists \in BOOLEAN
    /\ ~xslt_exists => dataFiles = DataWith(ProjectsFile(<< Txt(0, "alpha") >>))
    /\ tempFiles = [p \in Paths |-> NoFile]
    /\ workspaces = [d \in DirNames |-> NoWorkspace]
    /\ transformations = {}
    /\ selected_file_path = NoSelection
    /\ start_process_button = FALSE
    /\ download_button = FALSE
    /\ current_transformation_result = NoResult
    /\ merged_file_path = NoPath
    /\ xml_thread = NoRun
    /\ transformation_worker = NoRun
    /\ guiStack = <<>>
    /\ aborted = FALSE
    /\ closed = FALSE
    /\ runs = <<>>
    /\ program \in {"desktop", "web"}
    /\ program = "web" => xslt_exists /\ dataFiles = DataWith(MissingFile)
    /\ requests = <<>>
    /\ TRANSFORMATIONS = {}

\* packaging is not under study
PkIdle ==
    /\ pkProgram = "engine"
    /\ pkEngineFiles = << >>
    /\ pkFiles = << >>
    /\ pkStatics = {}
    /\ pkState = "unused"
    /\ pkCount = 0
    /\ pkZip = << >>

\* cleaning is not under study
ClIdle ==
    /\ clCleaner = "none"
    /\ clInput = << >>
    /\ clOnce = << >>
    /\ clTwice = << >>
    /\ clState = "unused"

\* the ProjectManager of main.py after __init__
PmIdle ==
    /\ project_manager = EmptyManager
    /\ pmCall = Call("none", FALSE)

\* serialisation of a Project is not under study
RtIdle ==
    /\ rtProject = << >>
    /\ rtXml = << >>
    /\ rtBack = << >>
    /\ rtState = "unused"

Init == PipeInit /\ FnIdle /\ PkIdle /\ ClIdle /\ PmIdle /\ RtIdle

(***************************************************************************)
(* User actions (GUI thread, no modal dialog open)                         *)
(***************************************************************************)
\* the process runs and the widget is open
Alive == ~aborted /\ ~closed

UserCanAct == program = "desktop" /\ Alive /\ guiStack = <<>>

\* AutoTransformationWidget.open_file_dialog with a file chosen; it ends
\* with clear_results()
open_file_dialog(doc) ==
    /\ UserCanAct
    /\ selected_file_path' = doc
    /\ start_process_button' = TRUE
    /\ current_transformation_result' = NoResult
    /\ download_button' = FALSE
    /\ UNCHANGED << clock, dataFiles, xslt_exists, tempFiles, workspaces, transformations,
                    merged_file_path, xml_thread, transformation_worker, guiStack,
                    aborted, runs, webVars, closed, fnVars, pkVars, clVars, pmVars, rtVars >>

\* AutoTransformationWidget.clear_results (the clear button is enabled with
\* the download button)
clear_results ==
    /\ UserCanAct
    /\ download_button
    /\ current_transformation_result' = NoResult
    /\ download_button' = FALSE
    /\ UNCHANGED << clock, dataFiles, xslt_exists, tempFiles, workspaces, transformations,
                    selected_file_path, start_process_button, merged_file_path, xml_thread,
                    transformation_worker, guiStack, aborted, runs, webVars, closed, fnVars, pkVars, clVars, pmVars, rtVars >>

\* the project lists the user can save in the Projects tab
EditedProjects == { << Txt(0, "alpha") >>, << Txt(0, "alpha"), Txt(0, "beta") >> }

\* ProjectsListWidget._finalize_project_edit and delete_selected_project:
\* the record store is changed and save_callback rewrites projects.xml
finalize_project_edit(ids) ==
    /\ UserCanAct
    /\ dataFiles["projects_data"] # ProjectsFile(ids)
    /\ dataFiles' = [dataFiles EXCEPT !["projects_data"] = ProjectsFile(ids)]
    /\ UNCHANGED << clock, xslt_exists, tempFiles, workspaces, transformations,
                    selected_file_path, start_process_button, download_button,
                    current_transformation_result, merged_file_path, xml_thread,
                    transformation_worker, guiStack, aborted, runs, webVars, closed, fnVars, pkVars, clVars, pmVars, rtVars >>

\* XSLTTransformationEngine.cleanup: shutil.rmtree(self.temp_dir), or
\* nothing when rmtree raises
RemoveAllWorkspaces(ws, ok) == IF ok THEN [d \in DOMAIN ws |-> NoWorkspace] ELSE ws

\* AutoTransformationWidget.closeEvent: the running worker is terminated,
\* then engine.cleanup()
closeEvent ==
    /\ UserCanAct
    /\ closed' = TRUE
    /\ runs' = IF WorkerRunning
               THEN [runs EXCEPT ![transformation_worker].pc = "terminated"]
               ELSE runs
    /\ \E ok \in BOOLEAN : workspaces' = RemoveAllWorkspaces(workspaces, ok)
    /\ UNCHANGED << clock, dataFiles, xslt_exists, tempFiles, transformations,
                    selected_file_path, start_process_button, download_button,
                    current_transformation_result, merged_file_path, xml_thread,
                    transformation_worker, guiStack, aborted, webVars, fnVars, pkVars, clVars, pmVars, rtVars >>

\* AutoTransformationWidget.start_complete_process
start_complete_process ==
    /\ UserCanAct
    /\ start_process_button
    /\ selected_file_path # NoSelection
    /\ Len(runs) < MaxRuns
    /\ start_process_button' = FALSE
    /\ runs' = Append(runs, NewRun(selected_file_path))
    /\ xml_thread' = Len(runs) + 1
    /\ IF XmlThreadRunning THEN aborted' \in BOOLEAN ELSE aborted' = FALSE
    /\ UNCHANGED << clock, dataFiles, xslt_exists, tempFiles, workspaces, transformations,
                    selected_file_path, download_button, current_transformation_result,
                    merged_file_path, transformation_worker, guiStack, webVars, closed, fnVars, pkVars, clVars, pmVars, rtVars >>

\* the wall clock passes a second
Tick ==
    /\ program = "desktop"
    /\ Alive
    /\ clock < MaxClock
    /\ clock' = clock + 1
    /\ UNCHANGED << dataFiles, xslt_exists, tempFiles, workspaces, transformations,
                    selected_file_path, start_process_button, download_button,
                    current_transformation_result, merged_file_path, xml_thread,
                    transformation_worker, guiStack, aborted, runs, webVars, closed, fnVars, pkVars, clVars, pmVars, rtVars >>

(***************************************************************************)
(* Fusion thread                                                           *)
(***************************************************************************)
\* validate_xml_file: ET.parse of the file as uploaded
validate_xml_file(f) == Parses(f)

ProcessSignalsWithoutReturn(valid, merged) ==
    (IF valid THEN << >> ELSE << "error_occurred" >>)
        \o (IF merged THEN << "merge_completed" >> ELSE << "error_occurred" >>)

\* the terminal signals process emits: error_occurred and return when the
\* validation fails, else merge_completed at the end of the try block or
\* error_occurred in its except branch
ProcessSignals(valid, merged) ==
    IF ~valid THEN << "error_occurred" >>
    ELSE IF merged THEN << "merge_completed" >>
    ELSE << "error_occurred" >>

\* the identifiers that projects.xml, the file of the record store, defines
StoreIds(f) == AvailableProjects(SlotWrappers("projects_data", f))

\* the elements of a document: the root, its children, and the <projet>
\* child of each child that is not a <project id="...">
CountElements(f) ==
    1 + Len(f.kids) + Cardinality({k \in 1..Len(f.kids) : f.kids[k].tag # "project"})

\* extract_xml_statistics: ET.fromstring of the text it is given, or the
\* error-tagged report when that raises ParseError
extract_xml_statistics(f) ==
    IF Parses(f) THEN Statistics(FALSE, f.root, CountElements(f))
    ELSE Statistics(TRUE, "", 0)

\* the steps of process that read or rewrite the primary document, in the
\* order of the statements: step 2 (validate_xml_file), step 3
\* (_clean_xml_content), step 4 (extract_xml_statistics), step 5
\* (_merge_xml_files) and step 6 (the fused document is written)
ProcessSteps(valid, merged) ==
    IF ~valid THEN << "validate_xml_file" >>
    ELSE << "validate_xml_file", "_clean_xml_content", "extract_xml_statistics",
            "_merge_xml_files" >> \o (IF merged THEN << "write" >> ELSE << >>)

\* XMLProcessor.process, from validation to the emitted signal: the run
\* afterwards and the fused document written, if any
ProcessOutcome(r, now, data) ==
    LET cleaned == CleanXmlContentProcessor(r.input)
        sigs == ProcessSignals(validate_xml_file(r.input), ~MergeRaises(cleaned))
        r0 == [r EXCEPT !.ops = ProcessSteps(validate_xml_file(r.input),
                                             ~MergeRaises(cleaned)),
                        !.stats = IF validate_xml_file(r.input)
                                  THEN extract_xml_statistics(cleaned) ELSE NoStats]
    IN  IF ~validate_xml_file(r.input)
        THEN [run |-> [Emit(Enter(r0, "Failed"), sigs) EXCEPT !.pc = "error_emitted",
                                                              !.failure = "fusion"],
              written |-> FALSE, doc |-> <<>>]
        ELSE LET r1 == Emit(Enter(Enter(r0, "Cleaning"), "Fusing"), sigs)
             IN  IF MergeRaises(cleaned)
                 THEN [run |-> [Enter(r1, "Failed") EXCEPT !.pc = "error_emitted",
                                                           !.failure = "fusion"],
                       written |-> FALSE, doc |-> <<>>]
                 ELSE [run |-> [r1 EXCEPT !.pc = "merge_emitted", !.path = now,
                                          !.fused_store = StoreIds(data["projects_data"])],
                       written |-> TRUE,
                       doc |-> MergeXmlFiles(clean_xml_content(cleaned), data)]

process(i) ==
    /\ Alive
    /\ i \in 1..Len(runs)
    /\ runs[i].pc = "thread_started"
    /\ LET out == ProcessOutcome(runs[i], clock, dataFiles)
       IN  /\ runs' = [runs EXCEPT ![i] = out.run]
           /\ tempFiles' =
                IF out.written
                THEN [tempFiles EXCEPT ![clock] = [exists |-> TRUE, doc |-> out.doc]]
                ELSE tempFiles
    /\ UNCHANGED << clock, dataFiles, xslt_exists, workspaces, transformations,
                    selected_file_path, start_process_button, download_button,
                    current_transformation_result, merged_file_path, xml_thread,
                    transformation_worker, guiStack, aborted, webVars, closed, fnVars, pkVars, clVars, pmVars, rtVars >>

(***************************************************************************)
(* Signal handlers (GUI thread; they also run inside a modal dialog's      *)
(* event loop)                                                             *)
(***************************************************************************)
KeepMergedFile(files, path) == files

\* "if self.merged_file_path and Path(self.merged_file_path).exists():
\*      os.remove(self.merged_file_path)"
RemoveMergedFile(files, path) ==
    IF path # NoPath /\ files[path].exists THEN [files EXCEPT ![path] = NoFile] ELSE files

\* on_error up to QMessageBox.critical: the dialog is open
OnErrorOpens(i, r, kind, after) ==
    /\ start_process_button' = TRUE
    /\ guiStack' = Append(guiStack, Dialog("error", i, after))
    /\ runs' = [runs EXCEPT ![i] = [Handle(r, "on_error") EXCEPT !.pc = "error_dialog",
                                                                  !.failure = kind]]

\* error_occurred -> on_error
on_fusion_error(i) ==
    /\ Alive
    /\ i \in 1..Len(runs)
    /\ runs[i].pc = "error_emitted"
    /\ OnErrorOpens(i, runs[i], "fusion", "none")
    /\ UNCHANGED << clock, dataFiles, xslt_exists, tempFiles, workspaces, transformations,
                    selected_file_path, download_button, current_transformation_result,
                    merged_file_path, xml_thread, transformation_worker, aborted, webVars, closed, fnVars, pkVars, clVars, pmVars, rtVars >>

ParsedForGateWithLiveStore(files, path, data) ==
    IF files[path].exists
    THEN [files[path] EXCEPT !.doc = << files[path].doc[1] >> \o MergeSlots(data, 1)]
    ELSE files[path]

\* "tree = ET.parse(merged_file_path)" in verify_projects: the only input of
\* the gate is the fused document on disk
ParsedForGate(files, path, data) == files[path]

\* merge_completed -> on_merge_completed, with verify_projects and then
\* on_missing_projects (up to msg.exec()) or start_transformation
on_merge_completed(i) ==
    /\ Alive
    /\ i \in 1..Len(runs)
    /\ runs[i].pc = "merge_emitted"
    /\ merged_file_path' = runs[i].path
    /\ LET file == ParsedForGate(tempFiles, runs[i].path, dataFiles)
           r1 == [Enter(runs[i], "Validating") EXCEPT
                     !.validating_store = StoreIds(dataFiles["projects_data"])]
       IN  IF ~file.exists
           THEN \* ET.parse raises: verify_projects raises
                /\ OnErrorOpens(i, Enter(r1, "Failed"), "verify", "none")
                /\ UNCHANGED << transformation_worker, aborted >>
           ELSE \E missing_projects \in VerifyProjects(file.doc) :
                LET r2 == [r1 EXCEPT !.verified = TRUE, !.missing = missing_projects,
                                     !.available = AvailableProjects(file.doc)]
                IN  IF GateBlocks(missing_projects)
                    THEN /\ start_process_button' = TRUE
                         /\ guiStack' = Append(guiStack, Dialog("missing", i, "none"))
                         /\ runs' = [runs EXCEPT ![i] =
                                        [Handle(Enter(r2, "Failed"), "on_missing_projects")
                                            EXCEPT !.pc = "missing_dialog", !.failure = "gate"]]
                         /\ UNCHANGED << transformation_worker, aborted >>
                    ELSE IF ~xslt_exists
                    THEN /\ OnErrorOpens(i, [Enter(r2, "Failed") EXCEPT !.started = TRUE],
                                         "xslt", "none")
                         /\ UNCHANGED << transformation_worker, aborted >>
                    ELSE /\ runs' = [runs EXCEPT ![i] =
                                        [r2 EXCEPT !.pc = "worker_started", !.started = TRUE,
                                                   !.xml_path = runs[i].path]]
                         /\ transformation_worker' = i
                         /\ IF WorkerRunning THEN aborted' \in BOOLEAN ELSE aborted' = FALSE
                         /\ UNCHANGED << start_process_button, guiStack >>
    /\ UNCHANGED << clock, dataFiles, xslt_exists, tempFiles, workspaces, transformations,
                    selected_file_path, download_button, current_transformation_result,
                    xml_thread, webVars, closed, fnVars, pkVars, clVars, pmVars, rtVars >>

(***************************************************************************)
(* Transformation worker thread: XSLTTransformationEngine.transform        *)
(***************************************************************************)
Issued == { runs[j].tid : j \in 1..Len(runs) } \ { NoUuid }

\* uuid.uuid4(): a value no earlier call returned
uuid4 == Uuids \ Issued

\* the "except Exception" branch of transform
FailureResult(transform_id, err) == Result(FALSE, transform_id, NoUuid, 0, err)

\* TransformationWorker.run: finished with the dictionary transform returns,
\* error when transform raises
WorkerSignals(raised) == IF raised THEN << "error" >> ELSE << "finished" >>

\* TransformationWorker.run and transform up to the return of the engine:
\* the identifier, os.makedirs(..., exist_ok=True) of the workspace, then
\* compile_stylesheet and transform_to_file.  The external engine writes its
\* files under output/ or raises; it raises when the source file is gone
engine_run(i) ==
    /\ Alive
    /\ i \in 1..Len(runs)
    /\ runs[i].pc = "worker_started"
    /\ \E transform_id \in uuid4 :
         LET d == WorkspaceDir(transform_id)
             r == [Enter(runs[i], "Transforming") EXCEPT !.tid = transform_id,
                                                         !.transform_dir = d]
         IN  \/ \* os.makedirs of transform_dir or of output/ raises, before
                \* the try block of transform: run catches it and emits error
                /\ \E made \in BOOLEAN :
                     workspaces' = [workspaces EXCEPT ![d].exists = made]
                /\ runs' = [runs EXCEPT ![i] =
                              [Emit(Enter(r, "Failed"), WorkerSignals(TRUE)) EXCEPT
                                  !.pc = "worker_error_emitted", !.failure = "workspace"]]
             \/ /\ tempFiles[r.xml_path].exists
                /\ \E outs \in EngineOutputs :
                     workspaces' = [workspaces EXCEPT
                                      ![d].exists = TRUE,
                                      ![d].output = @ \cup outs \cup {"report.xml"}]
                /\ runs' = [runs EXCEPT ![i] =
                              [Enter(r, "Packaging") EXCEPT !.pc = "packaging"]]
             \/ /\ \E part \in PartialOutputs :
                     /\ ~tempFiles[r.xml_path].exists => part = {}
                     /\ workspaces' = [workspaces EXCEPT ![d].exists = TRUE,
                                                         ![d].output = @ \cup part]
                /\ runs' = [runs EXCEPT ![i] =
                              [Emit(Enter(r, "Failed"), WorkerSignals(FALSE)) EXCEPT
                                  !.pc = "finished_emitted", !.failure = "engine",
                                  !.result = FailureResult(transform_id, "engine")]]
    /\ UNCHANGED << clock, dataFiles, xslt_exists, tempFiles, transformations,
                    selected_file_path, start_process_button, download_button,
                    current_transformation_result, merged_file_path, xml_thread,
                    transformation_worker, guiStack, aborted, webVars, closed, fnVars, pkVars, clVars, pmVars, rtVars >>

PackagingResultRegisteredEarly(transform_id, files, ok) ==
    [result |-> IF ok THEN Result(TRUE, transform_id, transform_id, Cardinality(files), "none")
                      ELSE FailureResult(transform_id, "packaging"),
     registered |-> TRUE]

\* the end of transform: self.transformations[transform_id] = ... and the
\* returned dictionary, reached only when nothing raised before
PackagingResult(transform_id, files, ok) ==
    [result |-> IF ok THEN Result(TRUE, transform_id, transform_id, Cardinality(files), "none")
                      ELSE FailureResult(transform_id, "packaging"),
     registered |-> ok]

\* the report, decode_html_entities, the archive, the registration and the
\* finished signal; a failure leaves no archive or a partial one
package(i) ==
    /\ Alive
    /\ i \in 1..Len(runs)
    /\ runs[i].pc = "packaging"
    /\ \E zip \in {"complete", "none", "partial"} :
         LET r == runs[i]
             d == r.transform_dir
             ok == zip = "complete"
             out == PackagingResult(r.tid, workspaces[d].output, ok)
         IN  /\ workspaces' = [workspaces EXCEPT ![d].zip = zip]
             /\ transformations' =
                  IF out.registered THEN transformations \cup {r.tid} ELSE transformations
             /\ runs' = [runs EXCEPT ![i] =
                            [Emit(IF ok THEN r ELSE Enter(r, "Failed"), WorkerSignals(FALSE)) EXCEPT
                                !.pc = "finished_emitted",
                                !.failure = IF ok THEN "none" ELSE "packaging",
                                !.result = out.result]]
    /\ UNCHANGED << clock, dataFiles, xslt_exists, tempFiles, selected_file_path,
                    start_process_button, download_button, current_transformation_result,
                    merged_file_path, xml_thread, transformation_worker, guiStack,
                    aborted, webVars, closed, fnVars, pkVars, clVars, pmVars, rtVars >>

(***************************************************************************)
(* The end of a run (GUI thread)                                           *)
(***************************************************************************)
ResultAlwaysSucceeded(result) == TRUE

\* on_transformation_finished: "if result['success']:"
ResultSucceeded(result) == result.success

\* finished -> on_transformation_finished, up to the modal dialog of either
\* branch
on_transformation_finished(i) ==
    /\ Alive
    /\ i \in 1..Len(runs)
    /\ runs[i].pc = "finished_emitted"
    /\ IF ResultSucceeded(runs[i].result)
       THEN /\ current_transformation_result' = runs[i].result
            /\ tempFiles' = RemoveMergedFile(tempFiles, merged_file_path)
            /\ download_button' = TRUE
            /\ guiStack' = Append(guiStack, Dialog("success", i, "finished"))
            /\ runs' = [runs EXCEPT ![i] =
                           [Handle(Enter(runs[i], "Done"), "success") EXCEPT
                               !.pc = "success_dialog"]]
            /\ UNCHANGED start_process_button
       ELSE /\ OnErrorOpens(i, runs[i], runs[i].failure, "finished")
            /\ UNCHANGED << current_transformation_result, tempFiles, download_button >>
    /\ UNCHANGED << clock, dataFiles, xslt_exists, workspaces, transformations,
                    selected_file_path, merged_file_path, xml_thread,
                    transformation_worker, aborted, webVars, closed, fnVars, pkVars, clVars, pmVars, rtVars >>

\* error -> on_transformation_error -> on_error
on_transformation_error(i) ==
    /\ Alive
    /\ i \in 1..Len(runs)
    /\ runs[i].pc = "worker_error_emitted"
    /\ OnErrorOpens(i, runs[i], "workspace", "none")
    /\ UNCHANGED << clock, dataFiles, xslt_exists, tempFiles, workspaces, transformations,
                    selected_file_path, download_button, current_transformation_result,
                    merged_file_path, xml_thread, transformation_worker, aborted, webVars, closed, fnVars, pkVars, clVars, pmVars, rtVars >>

\* the user closes the innermost dialog and its handler runs to its end
dialog_closed ==
    /\ Alive
    /\ guiStack # <<>>
    /\ LET top == Top(guiStack)
           i == top.run
       IN  /\ guiStack' = Pop(guiStack)
           /\ \/ /\ top.kind = "error"
                 \* on_error after QMessageBox.critical, then the caller's tail
                 /\ tempFiles' = RemoveMergedFile(tempFiles, merged_file_path)
                 /\ start_process_button' =
                      IF top.after = "finished" THEN TRUE ELSE start_process_button
                 /\ runs' = [runs EXCEPT ![i].pc = "failed"]
              \/ /\ top.kind = "missing"
                 \* on_missing_projects after msg.exec(); request_projects_tab,
                 \* emitted with the same list, is connected to no slot
                 /\ runs' = [runs EXCEPT ![i].pc = "failed"]
                 /\ UNCHANGED << tempFiles, start_process_button >>
              \/ /\ top.kind = "success"
                 \* on_transformation_finished after QMessageBox.information
                 /\ start_process_button' = TRUE
                 /\ runs' = [runs EXCEPT ![i].pc = "done"]
                 /\ UNCHANGED tempFiles
    /\ UNCHANGED << clock, dataFiles, xslt_exists, workspaces, transformations,
                    selected_file_path, download_button, current_transformation_result,
                    merged_file_path, xml_thread, transformation_worker, aborted, webVars, closed, fnVars, pkVars, clVars, pmVars, rtVars >>

(***************************************************************************)
(* app.py: the Flask route /transform                                      *)
(***************************************************************************)
\* the identifiers app.py has drawn
AppIssued == { requests[k].transform_id : k \in 1..Len(requests) }

\* "app.config['TRANSFORMATIONS'][transform_id] = ..." is the last
\* statement of the try block before the page is rendered
AppRegisters(outcome) == outcome = "ok"

\* download_zip(transform_id) and view_file: "if transform_id in ..."
DownloadZipResolves(transform_id) == transform_id \in TRANSFORMATIONS

\* transform(): the engine raises, writing the report or the archive
\* raises, or the results page is returned
flask_transform ==
    /\ program = "web"
    /\ Len(requests) < MaxRuns
    /\ \E transform_id \in Uuids \ AppIssued, outcome \in {"engine", "packaging", "ok"} :
         LET d == WorkspaceDir(transform_id)
         IN  /\ workspaces' = [workspaces EXCEPT
                  ![d] = Workspace(TRUE,
                                   IF outcome = "engine" THEN {}
                                   ELSE UNION EngineOutputs \cup {"report.xml"},
                                   IF outcome = "ok" THEN "complete" ELSE "none")]
             /\ TRANSFORMATIONS' =
                  IF AppRegisters(outcome) THEN TRANSFORMATIONS \cup {transform_id}
                  ELSE TRANSFORMATIONS
             /\ requests' = Append(requests,
                  [transform_id |-> transform_id, failure |-> outcome,
                   page |-> IF outcome = "ok" THEN "results.html" ELSE "index.html error"])
    /\ UNCHANGED << clock, dataFiles, xslt_exists, tempFiles, transformations,
                    selected_file_path, start_process_button, download_button,
                    current_transformation_result, merged_file_path, xml_thread,
                    transformation_worker, guiStack, aborted, runs, program, closed, fnVars, pkVars, clVars, pmVars, rtVars >>

(***************************************************************************)
(* Fusion and gate applied to enumerated inputs                            *)
(***************************************************************************)
\* XMLProcessor.process on fnMain with the slot files fnData
FnFuse ==
    /\ fnState = "input"
    /\ LET out == ProcessOutcome(NewRun(fnMain), 0, fnData)
       IN  /\ fnState' = IF out.written THEN "fused" ELSE "fusion_failed"
           /\ fnFused' = out.doc
    /\ UNCHANGED << pipeVars, pkVars, clVars, pmVars, rtVars, fnMain, fnData, fnMissing >>

\* verify_projects on the fused document
FnVerify ==
    /\ fnState = "fused"
    /\ \E missing_projects \in VerifyProjects(fnFused) :
         /\ fnMissing' = missing_projects
         /\ fnState' = "verified"
    /\ UNCHANGED << pipeVars, pkVars, clVars, pmVars, rtVars, fnMain, fnData, fnFused >>

\* the decision of on_merge_completed
FnGate ==
    /\ fnState = "verified"
    /\ fnState' = IF GateBlocks(fnMissing) THEN "blocked" ELSE "proceeds"
    /\ UNCHANGED << pipeVars, pkVars, clVars, pmVars, rtVars, fnMain, fnData, fnFused, fnMissing >>

(***************************************************************************)
(* Packaging applied to enumerated workspaces: the part of transform after *)
(* the engine call.  A path is the list of its components relative to the  *)
(* workspace directory; a text is a list of characters, each written       *)
(* literally (level 0) or as an entity encoded level times: level 1 of     *)
(* e-acute is "&#xE9;", level 2 is "&amp;#xE9;".                           *)
(***************************************************************************)
MaxLevel == 3

Char(ch, level) == [ch |-> ch, level |-> level]

\* the characters of the texts: a plain letter, and two characters at every
\* level of encoding
PackChars ==
    { Char("a", 0) } \cup { Char(ch, l) : ch \in {"e-acute", "<"}, l \in 0..MaxLevel }

NoReport == [status |-> "none", output_files_count |-> 0 - 1]

File(text, report) == [text |-> text, report |-> report]

\* html.unescape on one character reference: one level of encoding less
UnescapeChar(c) == IF c.level > 0 THEN Char(c.ch, c.level - 1) ELSE c

\* html.unescape(text)
html_unescape(text) == [k \in 1..Len(text) |-> UnescapeChar(text[k])]

\* decode_html_entities: the file is rewritten with
\* html.unescape(html.unescape(content))
decode_html_entities(f) == [f EXCEPT !.text = html_unescape(html_unescape(f.text))]

output_dir == << "output" >>

report_output == output_dir \o << "report.xml" >>

IsUnder(path, dir) == Len(path) > Len(dir) /\ SubSeq(path, 1, Len(dir)) = dir

WalkWorkspace(files) == DOMAIN files

\* "for root, dirs, files in os.walk(output_dir): for file in files": the
\* paths of the files under output/, at any depth
WalkOutput(files) == {path \in DOMAIN files : IsUnder(path, output_dir)}

\* os.path.relpath(file_path, output_dir)
RelPath(path) ==
    IF IsUnder(path, output_dir)
    THEN SubSeq(path, Len(output_dir) + 1, Len(path))
    ELSE << ".." >> \o path

\* len(generated_files)
output_files_count(files) == Cardinality(WalkOutput(files))

\* report_content
ReportContent(count) == File(<< >>, [status |-> "success", output_files_count |-> count])

\* a set as a list, in the order of the enumeration
RECURSIVE ListOf(_)
ListOf(S) ==
    IF S = {} THEN << >>
    ELSE LET x == CHOOSE y \in S : TRUE IN << x >> \o ListOf(S \ {x})

Entry(arcname, origin, path, content) ==
    [arcname |-> arcname, origin |-> origin, path |-> path, content |-> content]

StaticsArcnameAtRoot(rel_path) == << "statics" >> \o rel_path

\* arcname=os.path.join("output", "statics", rel_path)
StaticsArcname(rel_path) == << "output", "statics" >> \o rel_path

\* zipf.write(file_path, arcname) for every file of the walk
OutputEntries(files) ==
    LET walk == ListOf(WalkOutput(files))
    IN  [k \in 1..Len(walk) |->
            Entry(RelPath(walk[k]), "workspace", walk[k], files[walk[k]])]

NoStatics == { << >> }

\* "if os.path.exists(STATICS_PATH):" and the walk of it
StaticsEntries(statics) ==
    IF statics = NoStatics THEN << >>
    ELSE LET walk == ListOf(statics)
         IN  [k \in 1..Len(walk) |->
                 Entry(StaticsArcname(walk[k]), "statics", walk[k], File(<< >>, NoReport))]

zip_path == << "transformation_results.zip" >>

\* the texts of a produced page
PackTexts ==
    { << >> } \cup { << c >> : c \in PackChars }
              \cup { << Char("e-acute", 2), Char("<", 1) >>, << Char("a", 0), Char("e-acute", 1) >> }

Page(text) == File(text, NoReport)

\* the files of a workspace when the engine has returned: the pages of the
\* stylesheet's xsl:result-document instructions, the principal output
\* report.xml when the engine created it, and in app.py the uploads
EngineWorkspaces(prog) ==
    { [path \in pages \cup principal \cup
                (IF prog = "app" THEN { << "source.xml" >>, << "transform.xsl" >> } ELSE {}) |->
          IF path = << "output", "index.html" >> THEN Page(text) ELSE Page(<< Char("a", 0) >>)] :
        pages \in SUBSET { << "output", "index.html" >>,
                           << "output", "pages", "p1.html" >>,
                           << "output", "output", "statics", "site.css" >> },
        principal \in { {}, { report_output } },
        text \in PackTexts }

PackStatics == { NoStatics, {}, { << "css", "site.css" >>, << "logo.png" >> } }

\* output_files_count = len(generated_files), then report.xml is written
PkReport ==
    /\ pkState = "transformed"
    /\ pkCount' = output_files_count(pkFiles)
    /\ pkFiles' = [path \in DOMAIN pkFiles \cup { report_output } |->
                     IF path = report_output THEN ReportContent(output_files_count(pkFiles))
                     ELSE pkFiles[path]]
    /\ pkState' = "reported"
    /\ UNCHANGED << pipeVars, fnVars, clVars, pmVars, rtVars, pkProgram, pkEngineFiles, pkStatics, pkZip >>

\* transformer_engine.py: decode_html_entities on every file under output/
PkDecode ==
    /\ pkState = "reported"
    /\ pkProgram = "engine"
    /\ pkFiles' = [path \in DOMAIN pkFiles |->
                     IF path \in WalkOutput(pkFiles) THEN decode_html_entities(pkFiles[path])
                     ELSE pkFiles[path]]
    /\ pkState' = "decoded"
    /\ UNCHANGED << pipeVars, fnVars, clVars, pmVars, rtVars, pkProgram, pkEngineFiles, pkStatics, pkCount, pkZip >>

\* "with zipfile.ZipFile(zip_path, 'w') as zipf:" the files under output/,
\* then in transformer_engine.py the static assets
PkArchive ==
    /\ \/ pkState = "decoded"
       \/ pkState = "reported" /\ pkProgram = "app"
    /\ LET created == [path \in DOMAIN pkFiles \cup { zip_path } |->
                          IF path = zip_path THEN File(<< >>, NoReport) ELSE pkFiles[path]]
       IN  /\ pkZip' = OutputEntries(created)
                         \o (IF pkProgram = "engine" THEN StaticsEntries(pkStatics) ELSE << >>)
           /\ pkFiles' = created
    /\ pkState' = "archived"
    /\ UNCHANGED << pipeVars, fnVars, clVars, pmVars, rtVars, pkProgram, pkEngineFiles, pkStatics, pkCount >>

(***************************************************************************)
(* Cleaning applied to enumerated texts.  A text is the list of its        *)
(* pieces: the tags the substitutions look for, control and white-space    *)
(* characters, and other text.                                             *)
(***************************************************************************)
MaxPieces == 4

\* str.replace(old, new): the occurrences of old from left to right, without
\* overlap
RECURSIVE Replace(_, _, _)
Replace(text, old, new) ==
    IF Len(text) < Len(old) THEN text
    ELSE IF SubSeq(text, 1, Len(old)) = old
         THEN new \o Replace(SubSeq(text, Len(old) + 1, Len(text)), old, new)
         ELSE << text[1] >> \o Replace(Tail(text), old, new)

EmptyNomsFonctions == << "<nomsFonctions>", "<item key=''>", "</item>", "</nomsFonctions>" >>

\* XMLProcessor._clean_xml_content: the three replacements, in order
CleanXmlContentText(xml_content) ==
    Replace(Replace(Replace(xml_content,
                            << "<Anonyme>" >>, << "<item key='Anonyme'>" >>),
                    << "</Anonyme>" >>, << "</item>" >>),
            EmptyNomsFonctions, << >>)

\* re.sub(r'[\x00-\x08\x0B\x0C\x0E-\x1F\x7F]', '', xml_content)
RemoveControl(text) == SelectSeq(text, LAMBDA c : c # "\\x00")

\* re.sub(r'\r\n|\r', '\n', xml_content)
RECURSIVE NormaliseNewlines(_)
NormaliseNewlines(text) ==
    IF text = << >> THEN << >>
    ELSE IF Len(text) >= 2 /\ text[1] = "\\r" /\ text[2] = "\\n"
         THEN << "\\n" >> \o NormaliseNewlines(SubSeq(text, 3, Len(text)))
         ELSE IF text[1] = "\\r"
              THEN << "\\n" >> \o NormaliseNewlines(Tail(text))
              ELSE << text[1] >> \o NormaliseNewlines(Tail(text))

Whitespace == { " ", "\\n", "\\r" }

\* str.strip()
RECURSIVE StripText(_)
StripText(text) ==
    IF text = << >> THEN text
    ELSE IF text[1] \in Whitespace THEN StripText(Tail(text))
    ELSE IF text[Len(text)] \in Whitespace THEN StripText(SubSeq(text, 1, Len(text) - 1))
    ELSE text

\* utils.clean_xml_content on a text: control characters removed, newlines
\* normalised, then strip()
CleanXmlContentUtilsText(xml_content) ==
    StripText(NormaliseNewlines(RemoveControl(xml_content)))

\* the concatenations of at most n of the pieces
RECURSIVE Concatenations(_, _)
Concatenations(pieces, n) ==
    IF n = 0 THEN { << >> }
    ELSE LET shorter == Concatenations(pieces, n - 1)
         IN  shorter \cup { t \o piece : t \in shorter, piece \in pieces }

ProcessorPieces ==
    { << "<nomsFonctions>", "<item key=''>" >>, << "</item>", "</nomsFonctions>" >>,
      << "<Anonyme>" >>, << "</Anonyme>" >>, << "</nomsFonctions>" >>, << "text" >> }

UtilsPieces == { << "\\x00" >>, << "\\r" >>, << "\\n" >>, << " " >>, << "text" >> }

Clean(cleaner, text) ==
    IF cleaner = "_clean_xml_content" THEN CleanXmlContentText(text)
    ELSE CleanXmlContentUtilsText(text)

\* the cleaner applied to the input
ClClean ==
    /\ clState = "input"
    /\ clOnce' = Clean(clCleaner, clInput)
    /\ clState' = "once"
    /\ UNCHANGED << pipeVars, fnVars, pkVars, pmVars, rtVars, clCleaner, clInput, clTwice >>

\* the cleaner applied to its own result
ClCleanAgain ==
    /\ clState = "once"
    /\ clTwice' = Clean(clCleaner, clOnce)
    /\ clState' = "twice"
    /\ UNCHANGED << pipeVars, fnVars, pkVars, pmVars, rtVars, clCleaner, clInput, clOnce >>

(***************************************************************************)
(* ProjectManager operations (core/project_manager.py) and the project     *)
(* editor (ui/project_editor_widget.py, ui/projects_list.py)               *)
(***************************************************************************)
\* validate_project_id, validate_project_name: the empty string is the
\* invalid value drawn here
ValidProjectId(project_id) == project_id # ""

ValidProjectName(name) == name # ""

\* the objects a dictionary still refers to
Referenced(m) ==
    ({ m.projects[u] : u \in ProjectUuids } \cup { m.projects_by_id[id] : id \in Ids })
        \ { NoOid }

FreeOids(m) == Oids \ Referenced(m)

Least(S) == CHOOSE x \in S : \A y \in S : x <= y

\* an object no dictionary refers to is reclaimed
Collect(m) ==
    [m EXCEPT !.heap = [o \in Oids |-> IF o \in Referenced(m) THEN m.heap[o] ELSE NoObject]]

\* uuid.uuid4() in Project: a value no live object carries
ProjectUuid4(m) == Least(ProjectUuids \ { m.heap[o].uuid : o \in Referenced(m) })

\* what a call leaves behind and whether it raised
Outcome(m, raised) == [m |-> m, raised |-> raised]

\* "self._projects[project.uuid] = project
\*  self._projects_by_id[project.id] = project" for a new object
StoreProject(m, p) ==
    LET o == Least(FreeOids(m))
    IN  [m EXCEPT !.heap[o] = p, !.projects[p.uuid] = o, !.projects_by_id[p.id] = o]

\* ProjectManager._id_exists
IdExists(m, project_id) == m.projects_by_id[project_id] # NoOid

\* ProjectManager.create_project: the project_uuid argument is not used
CreateProject(m, project_id, name, description_html) ==
    IF ~ValidProjectId(project_id) \/ ~ValidProjectName(name) THEN Outcome(m, TRUE)
    ELSE IF IdExists(m, project_id) THEN Outcome(m, TRUE)
    ELSE Outcome(StoreProject(m, ProjectObject(ProjectUuid4(m), project_id, name,
                                               description_html)), FALSE)

\* the end of update_project: "if description_html is not None:"
UpdateDescription(m, o, description_html) ==
    Outcome(IF description_html = None THEN m
            ELSE [m EXCEPT !.heap[o].description_html = description_html], FALSE)

\* ProjectManager.update_project, statement by statement: the name is
\* assigned before the identifier is validated; "del
\* self._projects_by_id[old_id]" raises KeyError when old_id is no key
UpdateProject(m, project_uuid, name, project_id, description_html) ==
    IF m.projects[project_uuid] = NoOid THEN Outcome(m, TRUE)
    ELSE LET o == m.projects[project_uuid]
             old_id == m.heap[o].id
             m1 == IF name = None THEN m ELSE [m EXCEPT !.heap[o].name = name]
         IN  IF name # None /\ ~ValidProjectName(name) THEN Outcome(m, TRUE)
             ELSE IF project_id = None THEN UpdateDescription(m1, o, description_html)
             ELSE IF ~ValidProjectId(project_id) THEN Outcome(m1, TRUE)
             ELSE IF project_id # old_id /\ IdExists(m1, project_id) THEN Outcome(m1, TRUE)
             ELSE IF old_id = project_id THEN UpdateDescription(m1, o, description_html)
             ELSE IF ~IdExists(m1, old_id) THEN Outcome(m1, TRUE)
             ELSE UpdateDescription(
                      [m1 EXCEPT !.projects_by_id[old_id] = NoOid,
                                 !.projects_by_id[project_id] = o,
                                 !.heap[o].id = project_id],
                      o, description_html)

\* ProjectEditorWidget._save_data on an existing project: the editor holds
\* the object the manager stores and assigns its fields
SaveData(m, project_uuid, name, project_id, content) ==
    LET o == m.projects[project_uuid]
    IN  [m EXCEPT !.heap[o].name = name, !.heap[o].id = project_id,
                  !.heap[o].description_html = content]

\* ProjectManager.delete_project: True, False for an unknown uuid, or
\* KeyError from "del self._projects_by_id[project_id]"
DeleteProject(m, project_uuid) ==
    IF m.projects[project_uuid] = NoOid THEN Outcome(m, FALSE)
    ELSE LET project_id == m.heap[m.projects[project_uuid]].id
             m1 == [m EXCEPT !.projects[project_uuid] = NoOid]
         IN  IF ~IdExists(m1, project_id) THEN Outcome(m1, TRUE)
             ELSE Outcome([m1 EXCEPT !.projects_by_id[project_id] = NoOid], FALSE)

\* a <project> element: its id, uuid (0: no attribute) and name attributes
ProjectElement(id, uuid, name) == [id |-> id, uuid |-> uuid, name |-> name]

\* Project.from_xml_element raises: no id attribute
ElementInvalid(e) == e.id = ""

\* Project.from_xml_element: "uuid=uuid_str or str(uuid.uuid4())"
ElementProject(m, e) ==
    ProjectObject(IF e.uuid = 0 THEN ProjectUuid4(m) ELSE e.uuid, e.id, e.name, "")

\* the loop of load_from_xml from the k-th <project> on: an invalid element
\* or an identifier already stored is recorded in conflicts and skipped;
\* the call raises at the end when conflicts is not empty
RECURSIVE LoadProjects(_, _, _)
LoadProjects(m, elems, k) ==
    IF k > Len(elems) THEN Outcome(m, FALSE)
    ELSE LET e == elems[k]
             conflict == ElementInvalid(e) \/ IdExists(m, e.id)
             m1 == IF conflict THEN m ELSE StoreProject(m, ElementProject(m, e))
             rest == LoadProjects(m1, elems, k + 1)
         IN  Outcome(rest.m, conflict \/ rest.raised)

\* ProjectManager.load_from_xml: a <projects> document, a single <project>,
\* or another root
LoadFromXml(m, doc) ==
    IF doc.root = "projects" THEN LoadProjects(m, doc.elems, 1)
    ELSE IF doc.root = "project"
    THEN LET e == doc.elems[1]
         IN  IF ElementInvalid(e) \/ IdExists(m, e.id) THEN Outcome(m, TRUE)
             ELSE Outcome(StoreProject(m, ElementProject(m, e)), FALSE)
    ELSE Outcome(m, TRUE)

ProjectElements == { ProjectElement(id, uuid, "A") : id \in Ids \cup {""}, uuid \in {0, 1} }

\* the documents given to load_from_xml
ProjectsDocs ==
    { [root |-> "projects", elems |-> elems] : elems \in SeqsUpTo(ProjectElements, MaxItems) }
        \cup { [root |-> "project", elems |-> << e >>] : e \in ProjectElements }
        \cup { [root |-> "other", elems |-> << >>] }

\* a call of create_project
create_project(project_id, name, description_html) ==
    /\ FreeOids(project_manager) # {}
    /\ LET out == CreateProject(project_manager, project_id, name, description_html)
       IN  /\ project_manager' = Collect(out.m)
           /\ pmCall' = Call("create_project", out.raised)
    /\ UNCHANGED << pipeVars, fnVars, pkVars, clVars, rtVars >>

\* a call of update_project
update_project(project_uuid, name, project_id, description_html) ==
    /\ LET out == UpdateProject(project_manager, project_uuid, name, project_id,
                                description_html)
       IN  /\ project_manager' = Collect(out.m)
           /\ pmCall' = Call("update_project", out.raised)
    /\ UNCHANGED << pipeVars, fnVars, pkVars, clVars, rtVars >>

\* the save button of the editor opened on a stored project:
\* _validate_data passed, _save_data, then data_saved ->
\* _finalize_project_edit, which calls update_project and shows the
\* exception it raises, if any
save_existing_project(project_uuid, name, project_id, content) ==
    /\ project_manager.projects[project_uuid] # NoOid
    /\ ValidProjectName(name) /\ ValidProjectId(project_id)
    /\ LET saved == SaveData(project_manager, project_uuid, name, project_id, content)
           out == UpdateProject(saved, project_uuid, name, project_id, content)
       IN  /\ project_manager' = Collect(out.m)
           /\ pmCall' = Call("_finalize_project_edit", out.raised)
    /\ UNCHANGED << pipeVars, fnVars, pkVars, clVars, rtVars >>

\* a call of delete_project
delete_project(project_uuid) ==
    /\ LET out == DeleteProject(project_manager, project_uuid)
       IN  /\ project_manager' = Collect(out.m)
           /\ pmCall' = Call("delete_project", out.raised)
    /\ UNCHANGED << pipeVars, fnVars, pkVars, clVars, rtVars >>

\* a call of load_from_xml
load_from_xml(doc) ==
    /\ Cardinality(FreeOids(project_manager)) >= Len(doc.elems)
    /\ LET out == LoadFromXml(project_manager, doc)
       IN  /\ project_manager' = Collect(out.m)
           /\ pmCall' = Call("load_from_xml", out.raised)
    /\ UNCHANGED << pipeVars, fnVars, pkVars, clVars, rtVars >>

\* ProjectManager.clear_all_projects
clear_all_projects ==
    /\ project_manager' = EmptyManager
    /\ pmCall' = Call("clear_all_projects", FALSE)
    /\ UNCHANGED << pipeVars, fnVars, pkVars, clVars, rtVars >>

(***************************************************************************)
(* Project to XML and back (models/project.py)                             *)
(***************************************************************************)
MaxText == 2

\* the characters of a text: a letter "x", '&' "amp", carriage return "cr",
\* line feed "lf", tabulation "tab", a space "sp" and "ctl", a control
\* character such as U+0001 that XML 1.0 forbids
BlankChars == {"cr", "lf", "tab", "sp"}

\* a character of a serialised document: written as it is ("char") or as
\* an entity or character reference ("ref")
XmlToken(kind, ch) == [kind |-> kind, ch |-> ch]

\* ElementTree._escape_cdata, used by ET.tostring for element text:
\* '&', '<' and '>' are replaced by entities
EscapeCdata(text) ==
    [i \in 1..Len(text) |-> XmlToken(IF text[i] = "amp" THEN "ref" ELSE "char", text[i])]

\* ElementTree._escape_attrib, used by ET.tostring for attribute values:
\* '&', '<', '>', '"' and also "\r", "\n", "\t" are replaced by references
EscapeAttrib(text) ==
    [i \in 1..Len(text) |->
        XmlToken(IF text[i] \in {"amp", "cr", "lf", "tab"} THEN "ref" ELSE "char", text[i])]

\* Project.to_xml_element: the attributes id, uuid and name, and a
\* <description_html> child "if self.description_html:"
to_xml_element(p) ==
    [id |-> p.id, uuid |-> p.uuid, name |-> p.name, text |-> << >>,
     children |-> IF p.description_html # << >>
                  THEN << [tag |-> "description_html", text |-> p.description_html] >>
                  ELSE << >>]

\* prettify_xml on the copy of the element: an element with children gets
\* an indentation as its text; the text of a leaf is left alone
PrettifyXml(elem) ==
    [elem EXCEPT !.text = IF elem.children # << >> THEN << "lf", "sp", "sp" >> ELSE @]

\* ET.tostring(elem_copy, encoding='unicode', method='xml')
ElementToString(elem) ==
    [id |-> EscapeAttrib(elem.id), uuid |-> EscapeAttrib(elem.uuid),
     name |-> EscapeAttrib(elem.name), text |-> EscapeCdata(elem.text),
     children |-> [k \in 1..Len(elem.children) |->
                      [tag |-> elem.children[k].tag,
                       text |-> EscapeCdata(elem.children[k].text)]]]

\* Project.to_xml_string(pretty=True), through xml_to_string
ToXmlString(p) == ElementToString(PrettifyXml(to_xml_element(p)))

\* a forbidden control character written as it is makes the document
\* ill formed
HasControl(tokens) == \E i \in 1..Len(tokens) : tokens[i] = XmlToken("char", "ctl")

WellFormedXml(xml) ==
    /\ ~HasControl(xml.id) /\ ~HasControl(xml.uuid) /\ ~HasControl(xml.name)
    /\ ~HasControl(xml.text)
    /\ \A k \in 1..Len(xml.children) : ~HasControl(xml.children[k].text)

\* the parser on an attribute value: a reference gives its character, a
\* white-space character written as it is becomes a space
ParseAttrib(tokens) ==
    [i \in 1..Len(tokens) |->
        IF tokens[i].kind = "char" /\ tokens[i].ch \in BlankChars THEN "sp"
        ELSE tokens[i].ch]

\* the parser on element text: a reference gives its character; a line
\* ending written as it is, "\r\n" or "\r", becomes "\n"
RECURSIVE ParseCdata(_)
ParseCdata(tokens) ==
    IF tokens = << >> THEN << >>
    ELSE IF Head(tokens) = XmlToken("char", "cr")
    THEN << "lf" >> \o ParseCdata(IF Len(tokens) > 1 /\ tokens[2] = XmlToken("char", "lf")
                                  THEN Tail(Tail(tokens)) ELSE Tail(tokens))
    ELSE << Head(tokens).ch >> \o ParseCdata(Tail(tokens))

\* str.strip() leaves nothing
Blank(text) == \A i \in 1..Len(text) : text[i] \in BlankChars

\* from_xml_string raised ValueError
ValueError == [uuid |-> << >>, id |-> << >>, name |-> << >>,
               description_html |-> << "ValueError" >>]

\* Project.from_xml_string: ET.fromstring, then from_xml_element and the
\* checks of __post_init__; a missing uuid is replaced by a new one
FromXmlString(xml) ==
    IF ~WellFormedXml(xml) THEN ValueError
    ELSE LET project_id == ParseAttrib(xml.id)
             name == ParseAttrib(xml.name)
             uuid_str == ParseAttrib(xml.uuid)
             description_html ==
                 IF xml.children = << >> THEN << >> ELSE ParseCdata(xml.children[1].text)
         IN  IF project_id = << >> \/ Blank(name) \/ Blank(project_id) THEN ValueError
             ELSE [uuid |-> IF uuid_str = << >> THEN << "uuid4" >> ELSE uuid_str,
                   id |-> project_id, name |-> name, description_html |-> description_html]

\* the names and descriptions of the projects that are serialised; all of
\* them pass validate_project_name and validate_html_content
RoundTripNames == { n \in SeqsUpTo({"x", "tab"}, MaxText) : ~Blank(n) }

RoundTripDescriptions == SeqsUpTo({"x", "amp", "cr", "lf", "ctl"}, MaxText)

\* p.to_xml_string()
to_xml_string ==
    /\ rtState = "project"
    /\ rtXml' = ToXmlString(rtProject)
    /\ rtState' = "xml"
    /\ UNCHANGED << pipeVars, fnVars, pkVars, clVars, pmVars, rtProject, rtBack >>

\* Project.from_xml_string(xml_string)
from_xml_string ==
    /\ rtState = "xml"
    /\ rtBack' = FromXmlString(rtXml)
    /\ rtState' = "back"
    /\ UNCHANGED << pipeVars, fnVars, pkVars, clVars, pmVars, rtProject, rtXml >>

(***************************************************************************)
(* Specifications                                                          *)
(***************************************************************************)
Next ==
    \/ \E doc \in PipelineDocs : open_file_dialog(doc)
    \/ clear_results
    \/ start_complete_process
    \/ closeEvent
    \/ Tick
    \/ \E i \in 1..MaxRuns : process(i)
    \/ \E i \in 1..MaxRuns : on_fusion_error(i)
    \/ \E i \in 1..MaxRuns : on_merge_completed(i)
    \/ \E i \in 1..MaxRuns : engine_run(i)
    \/ \E i \in 1..MaxRuns : package(i)
    \/ \E i \in 1..MaxRuns : on_transformation_finished(i)
    \/ \E i \in 1..MaxRuns : on_transformation_error(i)
    \/ dialog_closed
    \/ flask_transform

Spec == Init /\ [][Next]_vars

\* the primary document of the runs during which the record store is edited
StoreDocs == { ValidFile("response", << Item("Anonyme", Txt(1, "beta")), Item("item", Txt(0, "alpha")) >>) }

\* the pipeline while the user edits the records in the Projects tab
NextStore ==
    \/ \E doc \in StoreDocs : open_file_dialog(doc)
    \/ start_complete_process
    \/ \E ids \in EditedProjects : finalize_project_edit(ids)
    \/ Tick
    \/ \E i \in 1..MaxRuns : process(i)
    \/ \E i \in 1..MaxRuns : on_merge_completed(i)
    \/ \E i \in 1..MaxRuns : engine_run(i)
    \/ \E i \in 1..MaxRuns : package(i)
    \/ \E i \in 1..MaxRuns : on_transformation_finished(i)
    \/ \E i \in 1..MaxRuns : on_transformation_error(i)
    \/ dialog_closed

\* the stylesheet is installed and the record store defines alpha
InitStore ==
    /\ Init
    /\ program = "desktop"
    /\ xslt_exists
    /\ dataFiles = DataWith(ProjectsFile(<< Txt(0, "alpha") >>))

SpecStore == InitStore /\ [][NextStore]_vars

NextFn == FnFuse \/ FnVerify \/ FnGate

\* the pipeline at rest while fusion and gate are applied to inputs
PipeIdle ==
    /\ PipeInit
    /\ program = "desktop"
    /\ xslt_exists
    /\ dataFiles = DataWith(MissingFile)

\* every slot file missing, valid, valid after cleaning, or malformed
FuseData ==
    { d \in [Range(data_files) ->
                {MissingFile} \cup PresentFiles("projects", << Project(Txt(0, "alpha")) >>)
                              \cup PresentFiles("content", <<>>)] :
        \A slot \in Range(data_files) :
            d[slot].root \in {"", IF slot = "projects_data" THEN "projects" ELSE "content"} }

InitFuse ==
    /\ PipeIdle
    /\ PmIdle
    /\ RtIdle
    /\ PkIdle
    /\ ClIdle
    /\ fnMain \in PipelineDocs
    /\ fnData \in FuseData
    /\ fnState = "input"
    /\ fnFused = <<>>
    /\ fnMissing = <<>>

SpecFuse == InitFuse /\ [][NextFn]_vars

GateItems == { Item("item", t) : t \in RawTexts } \cup { Item("Anonyme", Txt(0, "beta")) }

GateDocs == { ValidFile("response", items) : items \in SeqsUpTo(GateItems, MaxItems) }

GateData ==
    { DataWith(MissingFile) } \cup
    { DataWith(ProjectsFile(ids)) : ids \in SeqsUpTo(RawTexts, MaxItems) }

InitGate ==
    /\ PipeIdle
    /\ PmIdle
    /\ RtIdle
    /\ PkIdle
    /\ ClIdle
    /\ fnMain \in GateDocs
    /\ fnData \in GateData
    /\ fnState = "input"
    /\ fnFused = <<>>
    /\ fnMissing = <<>>

SpecGate == InitGate /\ [][NextFn]_vars

NextPack == PkReport \/ PkDecode \/ PkArchive

InitPack ==
    /\ PipeIdle
    /\ PmIdle
    /\ RtIdle
    /\ FnIdle
    /\ ClIdle
    /\ pkProgram \in {"engine", "app"}
    /\ pkEngineFiles \in EngineWorkspaces(pkProgram)
    /\ pkFiles = pkEngineFiles
    /\ pkStatics \in PackStatics
    /\ pkProgram = "app" => pkStatics = NoStatics
    /\ pkState = "transformed"
    /\ pkCount = 0
    /\ pkZip = << >>

SpecPack == InitPack /\ [][NextPack]_vars

NextClean == ClClean \/ ClCleanAgain

InitClean ==
    /\ PipeIdle
    /\ PmIdle
    /\ RtIdle
    /\ FnIdle
    /\ PkIdle
    /\ clCleaner \in {"_clean_xml_content", "clean_xml_content"}
    /\ clInput \in Concatenations(IF clCleaner = "_clean_xml_content"
                                  THEN ProcessorPieces ELSE UtilsPieces, MaxPieces)
    /\ clOnce = << >>
    /\ clTwice = << >>
    /\ clState = "input"

SpecClean == InitClean /\ [][NextClean]_vars

NextProjects ==
    \/ \E project_id \in Ids \cup {""}, name \in ProjectNames \cup {""},
          description_html \in Descriptions :
         create_project(project_id, name, description_html)
    \/ \E project_uuid \in ProjectUuids, name \in ProjectNames \cup {"", None},
          project_id \in Ids \cup {"", None}, description_html \in Descriptions \cup {None} :
         update_project(project_uuid, name, project_id, description_html)
    \/ \E project_uuid \in ProjectUuids, name \in ProjectNames, project_id \in Ids,
          content \in Descriptions :
         save_existing_project(project_uuid, name, project_id, content)
    \/ \E project_uuid \in ProjectUuids : delete_project(project_uuid)
    \/ \E doc \in ProjectsDocs : load_from_xml(doc)
    \/ clear_all_projects

\* the manager of main.py before load_projects, the pipeline at rest
InitProjects ==
    /\ PipeIdle
    /\ FnIdle
    /\ PkIdle
    /\ ClIdle
    /\ PmIdle
    /\ RtIdle

SpecProjects == InitProjects /\ [][NextProjects]_vars

NextRoundTrip == to_xml_string \/ from_xml_string

\* a valid Project, the pipeline at rest
InitRoundTrip ==
    /\ PipeIdle
    /\ FnIdle
    /\ PkIdle
    /\ ClIdle
    /\ PmIdle
    /\ rtProject \in [uuid : {<< "x" >>}, id : {<< "x" >>}, name : RoundTripNames,
                      description_html : RoundTripDescriptions]
    /\ rtXml = << >>
    /\ rtBack = << >>
    /\ rtState = "project"

SpecRoundTrip == InitRoundTrip /\ [][NextRoundTrip]_vars

\* the desktop program with the stylesheet installed and a record store that
\* defines alpha
InitLive ==
    /\ Init
    /\ program = "desktop"
    /\ xslt_exists
    /\ dataFiles = DataWith(ProjectsFile(<< Txt(0, "alpha") >>))

\* the desktop program: the user, the two threads of a run and the slots
NextLive ==
    \/ \E doc \in PipelineDocs : open_file_dialog(doc)
    \/ clear_results
    \/ start_complete_process
    \/ closeEvent
    \/ Tick
    \/ \E i \in 1..MaxRuns : process(i)
    \/ \E i \in 1..MaxRuns : on_fusion_error(i)
    \/ \E i \in 1..MaxRuns : on_merge_completed(i)
    \/ \E i \in 1..MaxRuns : engine_run(i)
    \/ \E i \in 1..MaxRuns : package(i)
    \/ \E i \in 1..MaxRuns : on_transformation_finished(i)
    \/ \E i \in 1..MaxRuns : on_transformation_error(i)
    \/ dialog_closed

\* a started QThread is scheduled: XMLProcessor.process and
\* TransformationWorker.run (the engine call returns) run to their signal
ThreadsScheduled ==
    \A i \in 1..MaxRuns :
        /\ WF_vars(process(i))
        /\ WF_vars(engine_run(i))
        /\ WF_vars(package(i))

\* the event loop of the GUI thread delivers every queued signal to its
\* slot, and a modal message box is dismissed
SlotsDelivered ==
    /\ \A i \in 1..MaxRuns :
        /\ WF_vars(on_fusion_error(i))
        /\ WF_vars(on_merge_completed(i))
        /\ WF_vars(on_transformation_finished(i))
        /\ WF_vars(on_transformation_error(i))
    /\ WF_vars(dialog_closed)

SpecLive == InitLive /\ [][NextLive]_vars /\ ThreadsScheduled /\ SlotsDelivered

(***************************************************************************)
(* Properties                                                              *)
(***************************************************************************)
RunIds == 1..Len(runs)

\* the gate blocked run i: verify_projects returned a non-empty list
Blocked(i) == runs[i].verified /\ runs[i].missing # <<>>

\* C1: a run whose verify_projects returned a non-empty missing list never
\* calls start_transformation and never enters the engine's transform.
C1_GateBlocksEngine ==
    \A i \in RunIds :
        Blocked(i) =>
            /\ ~runs[i].started
            /\ runs[i].tid = NoUuid
            /\ "Transforming" \notin Range(runs[i].stages)

\* a blocked run has ended, and no workspace was ever created
C1_Witness ==
    \E i \in RunIds :
        /\ Blocked(i)
        /\ runs[i].pc = "failed"
        /\ \A d \in DirNames : ~workspaces[d].exists

FnVerified == fnState \in {"verified", "blocked", "proceeds"}

\* C2: the list returned by verify_projects holds exactly the identifiers
\* of required minus available, the gate blocks only when that difference
\* is non-empty, and when available contains every required identifier the
\* decision is to proceed.
C2_MissingIsDifference ==
    FnVerified =>
        LET required == RequiredProjects(fnFused)
            available == AvailableProjects(fnFused)
        IN  /\ Range(fnMissing) = required \ available
            /\ required \subseteq available => fnState # "blocked"
            /\ fnState = "proceeds" => required \subseteq available

\* both identifiers are required and available, written with whitespace,
\* and the gate lets the run proceed
C2_Witness ==
    /\ fnState = "proceeds"
    /\ RequiredProjects(fnFused) = Ids
    /\ AvailableProjects(fnFused) = Ids
    /\ \E k \in 1..Len(fnMain.kids) : fnMain.kids[k].text.ws > 0

\* str ordering of the identifiers
SortedIds == << "", "alpha", "beta" >>

IdRank(id) == CHOOSE k \in 1..Len(SortedIds) : SortedIds[k] = id

\* ascending with no duplicates
StrictlyAscending(list) ==
    \A k \in 1..Len(list) - 1 : IdRank(list[k]) < IdRank(list[k + 1])

\* C3: the missing list verify_projects returns, which on_missing_projects
\* shows and emits, is in ascending order without duplicates.
C3_ReportedSorted ==
    \A i \in RunIds : Blocked(i) => StrictlyAscending(runs[i].missing)

\* C4: once a run that the gate blocked has ended, the fused document that
\* the fusion stage wrote for it no longer exists.
C4_BlockedRunDiscardsFused ==
    \A i \in RunIds :
        (Blocked(i) /\ runs[i].pc = "failed") => ~tempFiles[runs[i].path].exists

\* C5: after a run has ended in a failure its workspace directory does not
\* exist, and after a success the workspace holds only output/ and the
\* complete archive.
C5_WorkspaceRemoved ==
    \A i \in RunIds :
        /\ (runs[i].pc = "failed" /\ runs[i].transform_dir # NoUuid) =>
              ~workspaces[runs[i].transform_dir].exists
        /\ runs[i].pc = "done" => workspaces[runs[i].transform_dir].zip = "complete"

\* C6: a run whose engine call or packaging failed has a result with
\* success false and its identifier is in no registry: neither the engine's
\* transformations nor app.py's TRANSFORMATIONS resolve it.
C6_FailedRunNotRegistered ==
    /\ \A i \in RunIds :
          runs[i].failure \in {"engine", "packaging"} =>
              /\ ~runs[i].result.success
              /\ runs[i].result.transform_id = runs[i].tid
              /\ runs[i].tid \notin transformations
    /\ \A k \in 1..Len(requests) :
          requests[k].failure \in {"engine", "packaging"} =>
              /\ requests[k].page # "results.html"
              /\ ~DownloadZipResolves(requests[k].transform_id)

\* packaging failed with a partly written archive on disk, after an
\* earlier run was registered
C6_Witness ==
    \E i, j \in RunIds :
        /\ runs[i].failure = "packaging"
        /\ workspaces[runs[i].transform_dir].zip = "partial"
        /\ runs[i].pc = "failed"
        /\ runs[j].tid \in transformations

StageOrder ==
    << "Cleaning", "Fusing", "Validating", "Transforming", "Packaging", "Done", "Failed" >>

StageRank(stage) == CHOOSE k \in 1..Len(StageOrder) : StageOrder[k] = stage

\* C7: the stages a run has entered are in strictly increasing order
\* Cleaning < Fusing < Validating < Transforming < Packaging < Done, each
\* at most once, and Failed, when entered, is the last one.
C7_StagesForward ==
    \A i \in RunIds :
        \A k \in 1..Len(runs[i].stages) - 1 :
            StageRank(runs[i].stages[k]) < StageRank(runs[i].stages[k + 1])

\* one run went through all the stages and another one failed in Packaging
C7_Witness ==
    \E i, j \in RunIds :
        /\ runs[i].stages = SubSeq(StageOrder, 1, 6)
        /\ runs[i].pc = "done"
        /\ runs[j].stages = SubSeq(StageOrder, 1, 5) \o << "Failed" >>
        /\ runs[j].pc = "failed"

C9_FreshIdentifier ==
    /\ \A i \in RunIds :
          runs[i].tid # NoUuid =>
              /\ runs[i].transform_dir = runs[i].tid
              /\ (runs[i].failure # "workspace" /\ ~closed) =>
                    workspaces[runs[i].transform_dir].exists
              /\ runs[i].pc \in {"finished_emitted", "success_dialog", "done"} =>
                    runs[i].result.transform_id = runs[i].tid
    /\ \A i, j \in RunIds :
          (i # j /\ runs[i].tid # NoUuid /\ runs[j].tid # NoUuid) =>
              /\ runs[i].tid # runs[j].tid
              /\ runs[i].transform_dir # runs[j].transform_dir

\* two runs are in transform at the same time, each with its workspace
C9_Witness ==
    \E i, j \in RunIds :
        /\ i # j
        /\ runs[i].pc = "packaging"
        /\ runs[j].pc = "packaging"

\* the number of wrappers named tag directly under <merged_data>
WrapperCount(fused, tag) == Cardinality({k \in 1..Len(fused) : fused[k].tag = tag})

FusedOk == fnState \in {"fused", "verified", "blocked", "proceeds"}

\* the slot wrappers of a fused document other than those named slot
OtherWrappers(fused, slot) ==
    SelectSeq(SubSeq(fused, 2, Len(fused)), LAMBDA w : w.tag # slot)

\* a slot file that exists and that _merge_xml_files cannot read or parse
BadSlot(f) == f.exists /\ ~Parses(clean_xml_content(f))

SlotIndex(tag) == CHOOSE k \in 1..Len(data_files) : data_files[k] = tag

\* C11: a slot file that cannot be read or parsed never aborts fusion: the
\* fusion fails only on the primary document, the bad slot's wrapper carries
\* the error attribute and has no content, the primary wrapper and the
\* wrappers of the other slots are those of the fusion with a valid file
\* in that slot, and the wrappers follow the order presentation, projects,
\* legal mentions, about.
C11_BadSlotContained ==
    /\ fnState = "fusion_failed" =>
          \/ ~validate_xml_file(fnMain)
          \/ MergeRaises(CleanXmlContentProcessor(fnMain))
    /\ FusedOk =>
          /\ \A slot \in Range(data_files) :
                BadSlot(fnData[slot]) =>
                    /\ \E k \in 2..Len(fnFused) :
                          /\ fnFused[k].tag = slot
                          /\ fnFused[k].error
                          /\ fnFused[k].kids = <<>>
                          /\ fnFused[k].root = ""
                    /\ LET valid == [fnData EXCEPT ![slot] = ValidFile("content", <<>>)]
                           ref == MergeXmlFiles(
                                     clean_xml_content(CleanXmlContentProcessor(fnMain)), valid)
                       IN  /\ fnFused[1] = ref[1]
                           /\ OtherWrappers(fnFused, slot) = OtherWrappers(ref, slot)
          /\ fnFused[1].tag = "philidor4_data"
          /\ \A k, l \in 2..Len(fnFused) :
                k < l => SlotIndex(fnFused[k].tag) < SlotIndex(fnFused[l].tag)

\* the projects file is malformed, and the two slots after it are fused
\* with their content
C11_Witness ==
    /\ fnState = "fused"
    /\ BadSlot(fnData["projects_data"])
    /\ \E k \in 2..Len(fnFused) : fnFused[k].tag = "projects_data" /\ fnFused[k].error
    /\ \E k \in 2..Len(fnFused) : fnFused[k].tag = "legal_mentions_data" /\ ~fnFused[k].error
    /\ \E k \in 2..Len(fnFused) : fnFused[k].tag = "about_data" /\ ~fnFused[k].error
    /\ fnData["about_data"].ctrl

\* the fusion thread of run i has emitted its terminal signal
FusionOver(i) == runs[i].pc # "thread_started"

\* a worker was created for run i
HasWorker(i) == runs[i].xml_path # NoPath

\* the run method of the worker of run i has returned
WorkerOver(i) ==
    HasWorker(i) /\ runs[i].pc \notin {"worker_started", "packaging", "terminated"}

\* a terminal handler of the widget has run for run i
Handled(i) ==
    runs[i].pc \in {"error_dialog", "missing_dialog", "success_dialog", "failed", "done"}

SignalsOf(i, S) == SelectSeq(runs[i].signals, LAMBDA sig : sig \in S)

ThreadStep ==
    \E i \in RunIds :
        /\ runs[i].pc \in {"thread_started", "worker_started", "packaging"}
        /\ runs'[i].pc \notin {runs[i].pc, "terminated"}

\* C13: the fused documents and the workspaces (directory, output/,
\* archive) are created, changed and deleted only by steps of the worker
\* threads, never by a handler running on the GUI thread.
C13_OnlyWorkerTouchesWorkspace ==
    [][(program = "desktop" /\ (tempFiles' # tempFiles \/ workspaces' # workspaces))
          => ThreadStep]_vars

\* the runs whose fused document was written to the path of run i
SamePath(i) == {j \in RunIds : runs[j].path = runs[i].path}

SnapshotFromFusion ==
    \A i \in RunIds :
        runs[i].verified =>
            /\ runs[i].available \in {runs[j].fused_store : j \in SamePath(i)}
            /\ SamePath(i) = {i} => runs[i].available = runs[i].fused_store
            /\ Range(runs[i].missing) \cap runs[i].available = {}

C15_TerminatedRunCleaned ==
    \A i \in RunIds :
        runs[i].pc = "terminated" =>
            /\ ~tempFiles[runs[i].xml_path].exists
            /\ runs[i].transform_dir # NoUuid => ~workspaces[runs[i].transform_dir].exists

\* the entries of the archive that were read from the workspace
WorkspaceEntries == {k \in 1..Len(pkZip) : pkZip[k].origin = "workspace"}

\* the files below output/ in the workspace
FilesUnderOutput == {path \in DOMAIN pkFiles : Len(path) > 1 /\ path[1] = "output"}

\* C16: when the archive is built, report.xml has the status success and
\* its output-files-count is the number of files under output/.
C16_ReportCountsOutputFiles ==
    pkState = "archived" =>
        /\ pkFiles[report_output].report.status = "success"
        /\ pkFiles[report_output].report.output_files_count = Cardinality(FilesUnderOutput)
        /\ pkFiles[report_output].report.output_files_count = Cardinality(WorkspaceEntries)

\* C17: the archive has exactly one entry for every file under output/, at
\* any depth, named by the file's path relative to output/, and no entry
\* for any other file of the workspace (the archive itself, the uploads).
C17_ArchiveHoldsOutputOnce ==
    pkState = "archived" =>
        /\ \A path \in FilesUnderOutput :
              Cardinality({k \in WorkspaceEntries : pkZip[k].path = path}) = 1
        /\ \A k \in WorkspaceEntries :
              /\ pkZip[k].path \in FilesUnderOutput
              /\ << "output" >> \o pkZip[k].arcname = pkZip[k].path
              /\ pkZip[k].content = pkFiles[pkZip[k].path]

\* app.py archived a workspace that also holds the uploads and the archive,
\* with a page in a subdirectory of output/
C17_Witness ==
    /\ pkState = "archived"
    /\ pkProgram = "app"
    /\ { << "source.xml" >>, zip_path } \subseteq DOMAIN pkFiles
    /\ \E k \in WorkspaceEntries : pkZip[k].arcname = << "pages", "p1.html" >>
    /\ Cardinality(WorkspaceEntries) = 4

\* C18 as stated: every entry of the archive is under output/, a produced
\* file as output/<relative path>, a static asset as
\* output/statics/<relative path>.
C18_AllEntriesUnderOutput ==
    pkState = "archived" =>
        \A k \in 1..Len(pkZip) :
            /\ pkZip[k].arcname[1] = "output"
            /\ pkZip[k].origin = "workspace" => pkZip[k].arcname = pkZip[k].path
            /\ pkZip[k].origin = "statics" =>
                  pkZip[k].arcname = << "output", "statics" >> \o pkZip[k].path

\* C18 amended: a produced file is stored under its path relative to
\* output/ with no prefix, so report.xml is the entry report.xml at the root
\* of the archive; only the static assets are stored under a prefix,
\* output/statics/<relative path>.
C18_LayoutRelativeAndStatics ==
    pkState = "archived" =>
        /\ \A k \in 1..Len(pkZip) :
              /\ pkZip[k].origin = "workspace" =>
                    pkZip[k].arcname = Tail(pkZip[k].path)
              /\ pkZip[k].origin = "statics" =>
                    /\ pkZip[k].arcname = << "output", "statics" >> \o pkZip[k].path
                    /\ pkZip[k].path \in pkStatics
        /\ \E k \in WorkspaceEntries : pkZip[k].arcname = << "report.xml" >>
        /\ pkProgram = "engine" /\ pkStatics # NoStatics =>
              \A rel_path \in pkStatics :
                  \E k \in 1..Len(pkZip) :
                      pkZip[k].origin = "statics" /\ pkZip[k].path = rel_path

\* the engine's archive with pages at its root and in pages/, and the
\* static assets under output/statics/
C18_Witness ==
    /\ pkState = "archived"
    /\ pkProgram = "engine"
    /\ \E k \in 1..Len(pkZip) : pkZip[k].arcname = << "index.html" >>
    /\ \E k \in 1..Len(pkZip) : pkZip[k].arcname = << "pages", "p1.html" >>
    /\ \E k \in 1..Len(pkZip) : pkZip[k].arcname = << "output", "statics", "css", "site.css" >>

\* the text has a character reference that is encoded twice
DoubleEncoded(text) == \E k \in 1..Len(text) : text[k].level >= 2

\* C19: after packaging, a character that was encoded twice is the single
\* character, and a file without any twice-encoded reference, report.xml
\* included, has the text it had before.
C19_DoubleUnescapeOnly ==
    (pkState = "archived" /\ pkProgram = "engine") =>
        /\ \A path \in DOMAIN pkEngineFiles \ { report_output } :
              LET before == pkEngineFiles[path].text
                  after == pkFiles[path].text
              IN  /\ \A k \in 1..Len(before) :
                        before[k].level = 2 => after[k] = Char(before[k].ch, 0)
                  /\ ~DoubleEncoded(before) => after = before
        /\ pkFiles[report_output] = ReportContent(pkCount)

\* C20: cleaning a text that was cleaned changes nothing, for
\* _clean_xml_content and for clean_xml_content.
C20_CleaningIdempotent == clState = "twice" => clTwice = clOnce

(***************************************************************************)
(* C21                                                                     *)
(***************************************************************************)
\* the steps of process that parse the primary document: ET.parse in
\* validate_xml_file, ET.fromstring in extract_xml_statistics and in
\* _merge_xml_files
ParsingSteps == {"validate_xml_file", "extract_xml_statistics", "_merge_xml_files"}

\* C21: in every run, no parse of the primary document happens before the
\* cleaner's substitutions have been applied to it.
C21_CleanerBeforeParsing ==
    \A i \in RunIds :
        \A k \in 1..Len(runs[i].ops) :
            runs[i].ops[k] \in ParsingSteps =>
                \E j \in 1..(k - 1) : runs[i].ops[j] = "_clean_xml_content"

(***************************************************************************)
(* C22                                                                     *)
(***************************************************************************)
\* the report extract_xml_statistics gives for a fused document: the root
\* <merged_data>, one element per wrapper, and the content of each wrapper
\* that carries one
StatisticsOfFused(fused) ==
    Statistics(FALSE, "merged_data",
               1 + Len(fused)
                 + Len(SelectSeq(fused, LAMBDA w : ~w.error))
                 + Cardinality({ << w, k >> \in (1..Len(fused)) \X (1..MaxItems) :
                                   k <= Len(fused[w].kids) })
                 + Cardinality({ << w, k >> \in (1..Len(fused)) \X (1..MaxItems) :
                                   /\ k <= Len(fused[w].kids)
                                   /\ fused[w].kids[k].tag # "project" }))

\* the position of a step in the steps of a run, 0 when it did not happen
StepIndex(i, step) ==
    IF \E k \in 1..Len(runs[i].ops) : runs[i].ops[k] = step
    THEN CHOOSE k \in 1..Len(runs[i].ops) : runs[i].ops[k] = step
    ELSE 0

\* C22: the StatisticsReport of a run is computed from the fused document,
\* after fusion has completed.
C22_StatisticsFromFused ==
    \A i \in RunIds :
        (runs[i].pc = "merge_emitted" /\ tempFiles[runs[i].path].exists) =>
            /\ StepIndex(i, "_merge_xml_files") < StepIndex(i, "extract_xml_statistics")
            /\ runs[i].stats = StatisticsOfFused(tempFiles[runs[i].path].doc)

(***************************************************************************)
(* C23                                                                     *)
(***************************************************************************)
\* the uuids under which self._projects stores a project
StoredUuids == { u \in ProjectUuids : project_manager.projects[u] # NoOid }

\* the project stored under a uuid
StoredProject(u) == project_manager.heap[project_manager.projects[u]]

\* C23: after any sequence of create, edit, delete, load_from_xml and clear
\* operations, no two stored projects have the same user identifier.
C23_IdentifiersUnique ==
    \A u \in StoredUuids : \A v \in StoredUuids :
        u # v => StoredProject(u).id # StoredProject(v).id

(***************************************************************************)
(* C24                                                                     *)
(***************************************************************************)
\* C24: for every valid project p, Project.from_xml_string(p.to_xml_string())
\* yields a project with the same name, description_html, id and uuid as p.
C24_ProjectRoundTrip == rtState = "back" => rtBack = rtProject

(***************************************************************************)
(* C25                                                                     *)
(***************************************************************************)
\* C25: _projects and _projects_by_id hold the same set of projects, every
\* project stored under uuid u has uuid u, and every project is stored in
\* _projects_by_id under its current id and under no other key.
C25_IndexesAgree ==
    /\ { project_manager.projects[u] : u \in ProjectUuids } \ { NoOid }
         = { project_manager.projects_by_id[id] : id \in Ids } \ { NoOid }
    /\ \A u \in StoredUuids : StoredProject(u).uuid = u
    /\ \A id \in Ids :
         project_manager.projects_by_id[id] # NoOid =>
             project_manager.heap[project_manager.projects_by_id[id]].id = id

(***************************************************************************)
(* C26                                                                     *)
(***************************************************************************)
\* C26: if a call to update_project raises, the name, id and description of
\* every stored project and both indexes are the same as before the call.
C26_UpdateAtomicOnError ==
    [][(pmCall'.op = "update_project" /\ pmCall'.raised)
          => project_manager' = project_manager]_vars

(***************************************************************************)
(* C27                                                                     *)
(***************************************************************************)
\* a run between start_complete_process and its terminal handler
ActiveRun(i) == runs[i].handled = << >> /\ runs[i].pc # "terminated"

\* C27: at most one pipeline run is active per AutoTransformationWidget: no
\* user action sequence can start a second run before the terminal handler
\* of the first.
C27_AtMostOneActiveRun == Cardinality({ i \in RunIds : ActiveRun(i) }) <= 1

(***************************************************************************)
(* C28                                                                     *)
(***************************************************************************)
\* C28: two fusion runs never write their serialized fused document to the
\* same file path, including runs that start within the same second.
C28_DistinctFusedPaths ==
    \A i \in RunIds : \A j \in RunIds :
        (i # j /\ runs[i].path # NoPath /\ runs[j].path # NoPath)
            => runs[i].path # runs[j].path

(***************************************************************************)
(* C29                                                                     *)
(***************************************************************************)
\* the runs a terminal handler has ended
EndedRuns == { i \in RunIds : runs[i].rank > 0 }

\* the run that ended last
LastEnded == CHOOSE i \in EndedRuns : \A j \in EndedRuns : runs[j].rank <= runs[i].rank

\* C29: whenever the widget offers a download, the offered archive is the one
\* produced by the most recently finished run; after a run ends in a failure
\* or is blocked by the gate, no archive of an earlier run is still offered.
C29_DownloadIsLatest ==
    (download_button /\ current_transformation_result # NoResult) =>
        /\ EndedRuns # {}
        /\ runs[LastEnded].handled = << "success" >>
        /\ current_transformation_result = runs[LastEnded].result

\* C30: every run started by start_complete_process eventually reaches Done
\* or Failed with the start button enabled again, when the threads are
\* scheduled, the signals are delivered and the window is not closed
RunOver(i) ==
    /\ i \in RunIds
    /\ \E k \in 1..Len(runs[i].stages) : runs[i].stages[k] \in {"Done", "Failed"}

C30_EveryRunTerminates ==
    \A i \in 1..MaxRuns :
        (i \in RunIds) ~> ((RunOver(i) /\ start_process_button) \/ closed)

====
